---- MODULE Spec2Model ----
(***************************************************************************)
(* Model of src/main.py: ServerCleanup, the rate-limit aware bulk          *)
(* delete / create / send pipeline.                                        *)
(*                                                                         *)
(* One coroutine per delete, create and send call; the pipeline coroutine  *)
(* (cleanup_server, create_announcement_channels) awaits each gather.      *)
(* asyncio is cooperative: an action is the code between two awaits.       *)
(*                                                                         *)
(* Time is counted in ticks of 20 ms.  asyncio.sleep(d) resumes the caller *)
(* no sooner than d later: a sleeper carries a countdown.  A sleep with a  *)
(* random part (jitter) may end at any tick from the one where the         *)
(* countdown of its fixed part reaches 0; a sleep without one ends at that *)
(* tick.  Clocks saturate at Horizon, the largest interval the code ever   *)
(* compares a clock with; countdowns start no higher than Horizon.         *)
(***************************************************************************)
EXTENDS Integers, Sequences, FiniteSets, TLC

\* ---------------------------------------------------------------- bounds
\* Permit counts of the three semaphores, scaled down from 10, 30 and 50
\* (src/main.py:21-23) so that a gather can exhaust a pool.
DeletePermits == 1
ChannelPermits == 2
MessagePermits == 1
\* range(100), batch_size = 10 and range(20) of create_announcement_channels,
\* scaled down.
NumChannels == 3
BatchSize == 2
NumWaves == 2
\* Largest inventory of one kind in a guild.
MaxItems == 2
\* Role lists a role selection is computed on: the number of roles besides
\* @everyone, and the highest position.
NumRoles == 4
MaxPosition == 5

\* ------------------------------------------------------ program constants
DeleteMaxRetries == 3
CreateMaxRetries == 5
SendMaxRetries == 3
\* min_interval of smart_delay, in ticks: 0.1 s and 0.02 s.
ChannelMinInterval == 5
MessageMinInterval == 1
\* asyncio.sleep(0.5) between delete retries; asyncio.sleep(2) before the
\* channel phase, in ticks.
DeleteFloor == 25
ChannelPause == 100
\* Lower ends of the random delays between batches (0.5 s) and waves (0.3 s),
\* and of the jitter added to a rate-limit wait: 0.1 s for a channel, 0.05 s
\* for a message, in ticks.
BatchDelay == 25
WaveDelay == 15
ChannelJitter == 5
MessageJitter == 2
\* One second, the unit of the exponential backoff, in ticks.
Second == 50
\* range(100) of the loop that prepares the names.
RequestedNames == 100

Max(a, b) == IF a >= b THEN a ELSE b
Min(a, b) == IF a <= b THEN a ELSE b

Horizon == Max(ChannelMinInterval, MessageMinInterval)

\* Countdown a sleep of d ticks starts with.
Cap(d) == Min(d, Horizon)

\* retry_after hints of a 429 answer, in ticks: under 20 ms, 40 ms, and 1 s,
\* the default of getattr(e, 'retry_after', 1).
RetryAfter == {0, 2, 50}

\* What one remote call can end with: success, HTTPException with status
\* 429, 404, 5xx or another status, or an exception that is no HTTPException.
Outcomes == {"ok", "rate_limited", "not_found", "server_error", "client_error", "exception"}

\* The kinds of resource, in the order cleanup_server deletes them in.
Kinds == <<"webhook", "emoji", "role", "channel", "category">>

\* ----------------------------------------------------------------- guild
\* A role of the guild: whether it is @everyone, whether it is managed,
\* and its position in the hierarchy.
Role(e, m, p) == [everyone |-> e, managed |-> m, position |-> p]

\* guild.roles, lowest first: @everyone, two plain roles, a managed role,
\* the caller's top role and a role above it.
GuildRoles == <<Role(TRUE, FALSE, 0), Role(FALSE, FALSE, 1), Role(FALSE, FALSE, 2),
                Role(FALSE, TRUE, 3), Role(FALSE, FALSE, 4), Role(FALSE, FALSE, 5)>>

\* The guilds a run is started on.  me_top is the position of
\* guild.me.top_role.
Guilds ==
  { [webhooks |-> MaxItems, emojis |-> 1, channels |-> MaxItems, categories |-> 1,
     roles |-> GuildRoles, me_top |-> 4] }

\* guild.roles is sorted lowest first and starts with @everyone; positions
\* are distinct.  Any of the other roles may be managed.
RoleLists ==
  { <<Role(TRUE, FALSE, 0)>> \o [i \in 1..NumRoles |-> Role(FALSE, m[i], p[i])] :
      m \in [1..NumRoles -> BOOLEAN],
      p \in { q \in [1..NumRoles -> 1..MaxPosition] :
                \A i \in 1..(NumRoles - 1) : q[i] < q[i + 1] } }

\* Guilds with nothing but roles; guild.me.top_role is one of the roles.
RoleGuilds ==
  { g \in [webhooks : {0}, emojis : {0}, channels : {0}, categories : {0},
           roles : RoleLists, me_top : 0..MaxPosition] :
      \E i \in 1..Len(g.roles) : g.roles[i].position = g.me_top }

InviteLinks == {"None", "", "https://discord.gg/x"}

VARIABLES
  guild,               \* self.guild
  invite_link,         \* the invite_link argument
  pc,                  \* where cleanup_server / create_announcement_channels is
  timer,               \* countdown of the pipeline's own asyncio.sleep
  error_report,        \* what the except clause of cleanup_server did
  status,              \* the messages delivered to status_channel, oldest first
  del,                 \* the delete_with_retry coroutine of each resource
  semaphore,           \* free permits of self.semaphore
  cre,                 \* the create_single_channel coroutine of each name
  channel_semaphore,   \* free permits of self.channel_semaphore
  batch_num,           \* loop variable of the batch loop
  all_channels,        \* indices of the names whose channel was created
  channels_to_create,  \* the names, as lists of characters
  snd,                 \* the send_message_to_channel coroutines of the wave
  message_semaphore,   \* free permits of self.message_semaphore
  wave,                \* loop variable of the wave loop
  send_tasks,          \* number of send coroutines created so far
  since_last_request,  \* time.time() - self.last_request_time
  since_dispatch       \* per class, time since its latest remote call was issued

run == <<guild, invite_link>>
pipeline == <<pc, timer, error_report, batch_num, wave, status>>
deletes == <<del, semaphore>>
creates == <<cre, channel_semaphore, all_channels, channels_to_create>>
sends == <<snd, message_semaphore, send_tasks>>
clocks == <<since_last_request, since_dispatch>>

vars == <<run, pipeline, deletes, creates, sends, clocks>>

\* ------------------------------------------------------------ coroutines
\* pc: "none" (not created), "ready" (created; before a delete attempt, or
\* before the async with of a create or send), "pace" (sleeping in
\* smart_delay), "call" (inside the remote call), "sleep_hint" (a delete
\* sleeping retry_after), "sleep" (sleeping before the next attempt), "done"
\* (returned), "gathered" (its gather has returned and the result is dropped).
\* attempt is the loop variable, attempts the number of remote calls issued
\* so far by a coroutine that has not returned, last the outcome of the latest
\* call, result the value returned.  owed is what is left of the retry_after
\* of the latest 429 answer: time that has yet to pass before the hint is over.
NoTask == [pc |-> "none", attempt |-> 0, attempts |-> 0, timer |-> 0,
           last |-> "none", result |-> "none", owed |-> 0]

NewTask == [NoTask EXCEPT !.pc = "ready"]

Gathered == [NoTask EXCEPT !.pc = "gathered"]

Resolved(t) == t.pc \in {"done", "gathered"}

\* One tick on a coroutine: a sleeper's countdown goes down.
TickTask(t) ==
  [t EXCEPT !.timer = IF @ > 0 THEN @ - 1 ELSE 0, !.owed = IF @ > 0 THEN @ - 1 ELSE 0]

\* The remote call of an attempt is issued.
Issue(t) == [t EXCEPT !.pc = "call", !.attempts = t.attempts + 1, !.timer = 0]

\* The remote call has ended with outcome o.
Record(t, o) == [t EXCEPT !.last = o]

\* A 429 answer carries retry_after.
Owe(t, o, hint) == [t EXCEPT !.owed = IF o = "rate_limited" THEN Cap(hint) ELSE 0]

Sleep(t, d) == [t EXCEPT !.pc = "sleep", !.timer = Cap(d)]

\* The coroutine returns: its locals are gone, its result is kept for the
\* gather.
Return(t, value) ==
  [t EXCEPT !.pc = "done", !.result = value, !.timer = 0, !.attempt = 0, !.attempts = 0,
            !.owed = 0]

MoreAttemptsOffByOne(attempt, max_retries) == attempt + 1 <= max_retries

\* for attempt in range(max_retries): whether another iteration follows.
MoreAttempts(attempt, max_retries) == attempt + 1 < max_retries

ReleasedOnSuccess(value, t) ==
  IF t.pc = "done" /\ t.result \notin {"False", "None"} THEN value + 1 ELSE value

\* The value of a semaphore after a step of coroutine t that began inside the
\* async with block: leaving the block, by return or by exception, releases
\* the permit.
Released(value, t) == IF t.pc = "done" THEN value + 1 ELSE value

CanAcquireUnchecked(value) == TRUE

CanAcquireSpare(value) == value > 1

\* asyncio.Semaphore: acquire() passes when the value is positive.
CanAcquire(value) == value > 0

\* ------------------------------------------------------------- inventory
Count(g, kind) ==
  CASE kind = "webhook" -> g.webhooks
    [] kind = "emoji" -> g.emojis
    [] kind = "role" -> Len(g.roles)
    [] kind = "channel" -> g.channels
    [] kind = "category" -> g.categories

\* The resources of the guild, as <<kind, index>>.
Resources(g) ==
  UNION { { <<Kinds[k], i>> : i \in 1..Count(g, Kinds[k]) } : k \in 1..Len(Kinds) }

OfKind(g, kind) == { r \in Resources(g) : r[1] = kind }

RoleFilterAtOrBelow(g, i) ==
  /\ ~g.roles[i].everyone
  /\ ~g.roles[i].managed
  /\ g.roles[i].position <= g.me_top

\* delete_roles: the filter of lines 71-73, as indices into guild.roles.
RoleFilter(g, i) ==
  /\ ~g.roles[i].everyone
  /\ ~g.roles[i].managed
  /\ g.roles[i].position < g.me_top

RECURSIVE Filtered(_, _)
Filtered(g, n) ==
  IF n = 0 THEN <<>>
  ELSE IF RoleFilter(g, n) THEN Append(Filtered(g, n - 1), n) ELSE Filtered(g, n - 1)

\* list.sort(key=position, reverse=True): stable insertion into a list kept
\* in descending position order.
RECURSIVE InsertDesc(_, _, _)
InsertDesc(g, s, i) ==
  IF s = <<>> THEN <<i>>
  ELSE IF g.roles[Head(s)].position >= g.roles[i].position
       THEN <<Head(s)>> \o InsertDesc(g, Tail(s), i)
       ELSE <<i>> \o s

RECURSIVE SortDesc(_, _)
SortDesc(g, s) ==
  IF s = <<>> THEN <<>> ELSE InsertDesc(g, SortDesc(g, SubSeq(s, 1, Len(s) - 1)), s[Len(s)])

roles_to_delete(g) == SortDesc(g, Filtered(g, Len(g.roles)))

\* The resources one delete_* method builds a coroutine for.
Targets(g, kind) ==
  IF kind = "role"
  THEN { <<"role", roles_to_delete(g)[j]>> : j \in 1..Len(roles_to_delete(g)) }
  ELSE OfKind(g, kind)

LaunchUnlessFailed(d, g, kind) ==
  [r \in DOMAIN d |->
     IF r \in Targets(g, kind) /\ \A x \in DOMAIN d : d[x].result # "False"
     THEN NewTask ELSE d[r]]

\* tasks = [self.delete_with_retry(x, ...) for x in ...]
Launch(d, g, kind) == [r \in DOMAIN d |-> IF r \in Targets(g, kind) THEN NewTask ELSE d[r]]

AllDoneNotAwaited(tasks) == TRUE

\* await asyncio.gather(*tasks, return_exceptions=True) has returned: every
\* coroutine that was created is done.
AllDone(tasks) == \A x \in DOMAIN tasks : tasks[x].pc \in {"none", "done", "gathered"}

\* The results of a gather are read (or dropped) and the coroutines are gone.
Collect(tasks) ==
  [x \in DOMAIN tasks |-> IF tasks[x].pc = "done" THEN Gathered ELSE tasks[x]]

\* ------------------------------------------------------------ smart_delay
min_interval(operation_type) ==
  IF operation_type = "channel" THEN ChannelMinInterval ELSE MessageMinInterval

\* The sleep of smart_delay, 0 when time_since_last >= min_interval.
sleep_time(operation_type, time_since_last) ==
  IF time_since_last < min_interval(operation_type)
  THEN min_interval(operation_type) - time_since_last
  ELSE 0

\* ------------------------------------------------------------------ Init
\* ServerCleanup(guild) is constructed and nothing has run yet.
Constructed ==
  /\ pc = "idle"
  /\ timer = 0
  /\ error_report = "none"
  /\ status = <<>>
  /\ del = [r \in Resources(guild) |-> NoTask]
  /\ semaphore = DeletePermits
  /\ cre = [i \in 1..NumChannels |-> NoTask]
  /\ channel_semaphore = ChannelPermits
  /\ batch_num = 0
  /\ all_channels = {}
  /\ channels_to_create = <<>>
  /\ snd = [i \in 1..NumChannels |-> NoTask]
  /\ message_semaphore = MessagePermits
  /\ wave = 0
  /\ send_tasks = 0
  /\ since_last_request = Horizon
  /\ since_dispatch = [c \in {"channel", "message"} |-> min_interval(c)]

Init ==
  /\ guild \in Guilds
  /\ invite_link \in InviteLinks
  /\ Constructed

\* A run on a guild of RoleGuilds, without an invite link.
InitRoles ==
  /\ guild \in RoleGuilds
  /\ invite_link = "None"
  /\ Constructed

\* ------------------------------------------------------ delete_with_retry
\* async with self.semaphore: await item.delete()  -- the permit is taken and
\* the call issued in one step when a permit is free.
DeleteIssue(r) ==
  /\ del[r].pc = "ready"
  /\ CanAcquire(semaphore)
  /\ semaphore' = semaphore - 1
  /\ del' = [del EXCEPT ![r] = Issue(@)]
  /\ UNCHANGED <<run, pipeline, creates, sends, clocks>>

DeleteOutcomeRetryNotFound(t, o, hint) ==
  CASE o = "ok" -> Return(t, "True")
    [] o = "rate_limited" -> [t EXCEPT !.pc = "sleep_hint", !.timer = Cap(hint)]
    [] OTHER -> IF t.attempt = DeleteMaxRetries - 1
                THEN Return(t, "False")
                ELSE Sleep(t, DeleteFloor)

DeleteOutcomeRetryAtOnce(t, o, hint) ==
  CASE o = "ok" -> Return(t, "True")
    [] o = "not_found" -> Return(t, "True")
    [] o = "rate_limited" ->
         IF t.attempt = DeleteMaxRetries - 1
         THEN Return(t, "False")
         ELSE [t EXCEPT !.pc = "ready", !.attempt = t.attempt + 1]
    [] OTHER -> IF t.attempt = DeleteMaxRetries - 1
                THEN Return(t, "False")
                ELSE Sleep(t, DeleteFloor)

\* What delete_with_retry does with the outcome o of item.delete(); hint is
\* retry_after.
DeleteOutcome(t, o, hint) ==
  CASE o = "ok" -> Return(t, "True")
    [] o = "not_found" -> Return(t, "True")
    [] o = "rate_limited" -> [t EXCEPT !.pc = "sleep_hint", !.timer = Cap(hint)]
    [] OTHER -> IF t.attempt = DeleteMaxRetries - 1
                THEN Return(t, "False")
                ELSE Sleep(t, DeleteFloor)

\* item.delete() returns or raises; the permit is released on the way out of
\* the async with block.
DeleteReturn(r) ==
  /\ del[r].pc = "call"
  /\ \E o \in Outcomes, hint \in RetryAfter :
       /\ o # "rate_limited" => hint = CHOOSE h \in RetryAfter : TRUE
       /\ del' = [del EXCEPT ![r] = DeleteOutcome(Owe(Record(@, o), o, hint), o, hint)]
  /\ semaphore' = semaphore + 1
  /\ UNCHANGED <<run, pipeline, creates, sends, clocks>>

\* The loop after asyncio.sleep(0.5): the next iteration, or return False
\* once range(max_retries) is used up.
DeleteNext(t) ==
  IF MoreAttempts(t.attempt, DeleteMaxRetries)
  THEN [t EXCEPT !.pc = "ready", !.attempt = t.attempt + 1]
  ELSE Return(t, "False")

\* A sleep of the coroutine is over.
DeleteWake(r) ==
  /\ del[r].pc \in {"sleep_hint", "sleep"}
  /\ del[r].timer = 0
  /\ del' = [del EXCEPT ![r] =
               IF @.pc = "sleep_hint" THEN Sleep(@, DeleteFloor) ELSE DeleteNext(@)]
  /\ UNCHANGED <<run, pipeline, semaphore, creates, sends, clocks>>

\* ------------------------------------------------------------ pacing
\* A remote call of the class is issued now.
Dispatched(operation_type) == [since_dispatch EXCEPT ![operation_type] = 0]

\* async with <semaphore>: await self.smart_delay(kind), then the first
\* attempt.  Without a sleep the call is issued in the same step.
Enter(t, operation_type) ==
  IF sleep_time(operation_type, since_last_request) > 0
  THEN [t EXCEPT !.pc = "pace", !.timer = sleep_time(operation_type, since_last_request)]
  ELSE Issue(t)

\* --------------------------------------------------- create_single_channel
CreateEnter(i) ==
  /\ cre[i].pc = "ready"
  /\ CanAcquire(channel_semaphore)
  /\ channel_semaphore' = channel_semaphore - 1
  /\ cre' = [cre EXCEPT ![i] = Enter(@, "channel")]
  /\ IF cre'[i].pc = "call"
     THEN since_last_request' = 0 /\ since_dispatch' = Dispatched("channel")
     ELSE UNCHANGED clocks
  /\ UNCHANGED <<run, pipeline, deletes, all_channels, channels_to_create, sends>>

\* The sleep of smart_delay is over: self.last_request_time = time.time(),
\* then the first attempt.
CreatePaced(i) ==
  /\ cre[i].pc = "pace"
  /\ cre[i].timer = 0
  /\ cre' = [cre EXCEPT ![i] = Issue(@)]
  /\ since_last_request' = 0
  /\ since_dispatch' = Dispatched("channel")
  /\ UNCHANGED <<run, pipeline, deletes, channel_semaphore, all_channels, channels_to_create, sends>>

\* 2 ** attempt seconds.
CreateBackoff(attempt) == Second * (2 ^ attempt)

CreateOutcomeRetryAll(t, o, hint) ==
  CASE o = "ok" -> Return(t, "channel")
    [] o = "rate_limited" -> Sleep(t, hint + ChannelJitter)
    [] OTHER -> Sleep(t, CreateBackoff(t.attempt))

\* What create_single_channel does with the outcome o of
\* guild.create_text_channel.
CreateOutcome(t, o, hint) ==
  CASE o = "ok" -> Return(t, "channel")
    [] o = "rate_limited" -> Sleep(t, hint + ChannelJitter)
    [] o = "server_error" -> Sleep(t, CreateBackoff(t.attempt))
    [] OTHER -> Return(t, "None")

\* guild.create_text_channel returns or raises.  A return leaves the async
\* with block and releases the permit.
CreateReturn(i) ==
  /\ cre[i].pc = "call"
  /\ \E o \in Outcomes, hint \in RetryAfter :
       /\ o # "rate_limited" => hint = CHOOSE h \in RetryAfter : TRUE
       /\ cre' = [cre EXCEPT ![i] = CreateOutcome(Record(@, o), o, hint)]
  /\ channel_semaphore' = Released(channel_semaphore, cre'[i])
  /\ UNCHANGED <<run, pipeline, deletes, all_channels, channels_to_create, sends, clocks>>

\* After the backoff sleep: the next attempt is issued at once, or the loop
\* is used up and the coroutine returns None.
CreateNext(t) ==
  IF MoreAttempts(t.attempt, CreateMaxRetries)
  THEN Issue([t EXCEPT !.attempt = t.attempt + 1])
  ELSE Return(t, "None")

CreateWake(i) ==
  /\ cre[i].pc = "sleep"
  /\ cre[i].timer = 0
  /\ cre' = [cre EXCEPT ![i] = CreateNext(@)]
  /\ channel_semaphore' = Released(channel_semaphore, cre'[i])
  /\ IF cre'[i].pc = "call"
     THEN since_dispatch' = Dispatched("channel") /\ UNCHANGED since_last_request
     ELSE UNCHANGED clocks
  /\ UNCHANGED <<run, pipeline, deletes, all_channels, channels_to_create, sends>>

\* ------------------------------------------------- send_message_to_channel
SendEnter(i) ==
  /\ snd[i].pc = "ready"
  /\ CanAcquire(message_semaphore)
  /\ message_semaphore' = message_semaphore - 1
  /\ snd' = [snd EXCEPT ![i] = Enter(@, "message")]
  /\ IF snd'[i].pc = "call"
     THEN since_last_request' = 0 /\ since_dispatch' = Dispatched("message")
     ELSE UNCHANGED clocks
  /\ UNCHANGED <<run, pipeline, deletes, creates, send_tasks>>

SendPaced(i) ==
  /\ snd[i].pc = "pace"
  /\ snd[i].timer = 0
  /\ snd' = [snd EXCEPT ![i] = Issue(@)]
  /\ since_last_request' = 0
  /\ since_dispatch' = Dispatched("message")
  /\ UNCHANGED <<run, pipeline, deletes, creates, message_semaphore, send_tasks>>

\* 1.5 ** attempt seconds.
SendBackoff(attempt) == (Second * (3 ^ attempt)) \div (2 ^ attempt)

\* (retry_after * 0.7) + jitter
SendOutcome(t, o, hint) ==
  CASE o = "ok" -> Return(t, "True")
    [] o = "rate_limited" -> Sleep(t, (hint * 7) \div 10 + MessageJitter)
    [] o = "server_error" -> Sleep(t, SendBackoff(t.attempt))
    [] OTHER -> Return(t, "False")

SendReturn(i) ==
  /\ snd[i].pc = "call"
  /\ \E o \in Outcomes, hint \in RetryAfter :
       /\ o # "rate_limited" => hint = CHOOSE h \in RetryAfter : TRUE
       /\ snd' = [snd EXCEPT ![i] = SendOutcome(Record(@, o), o, hint)]
  /\ message_semaphore' = Released(message_semaphore, snd'[i])
  /\ UNCHANGED <<run, pipeline, deletes, creates, send_tasks, clocks>>

SendNextReturnTrue(t) ==
  IF MoreAttempts(t.attempt, SendMaxRetries)
  THEN Issue([t EXCEPT !.attempt = t.attempt + 1])
  ELSE Return(t, "True")

\* After the backoff sleep: the next attempt, or return False.
SendNext(t) ==
  IF MoreAttempts(t.attempt, SendMaxRetries)
  THEN Issue([t EXCEPT !.attempt = t.attempt + 1])
  ELSE Return(t, "False")

SendWake(i) ==
  /\ snd[i].pc = "sleep"
  /\ snd[i].timer = 0
  /\ snd' = [snd EXCEPT ![i] = SendNext(@)]
  /\ message_semaphore' = Released(message_semaphore, snd'[i])
  /\ IF snd'[i].pc = "call"
     THEN since_dispatch' = Dispatched("message") /\ UNCHANGED since_last_request
     ELSE UNCHANGED clocks
  /\ UNCHANGED <<run, pipeline, deletes, creates, send_tasks>>

\* --------------------------------------------------------- cleanup_server
\* A message of cleanup_server to status_channel.
Message(text) == [text |-> text]

Progress(texts) == [k \in 1..Len(texts) |-> Message(texts[k])]

FailAndGoOn(delivered) ==
  /\ error_report' \in {"sent", "send_failed"}
  /\ status' = status \o delivered \o
                 (IF error_report' = "sent" THEN <<Message("error")>> ELSE <<>>)
  /\ UNCHANGED <<run, pc, timer, batch_num, wave, deletes, creates, sends, clocks>>

\* except Exception as e: the error is sent to the status channel; a failure
\* of that send is swallowed.  delivered are the messages of the try block
\* that went out in this step before the exception.
Fail(delivered) ==
  /\ pc' = "terminated"
  /\ error_report' \in {"sent", "send_failed"}
  /\ status' = status \o delivered \o
                 (IF error_report' = "sent" THEN <<Message("error")>> ELSE <<>>)
  /\ UNCHANGED <<run, timer, batch_num, wave, deletes, creates, sends, clocks>>

\* start_cleanup / start_cleanup_prefix: the command builds a ServerCleanup
\* and awaits cleanup_server.
Start ==
  /\ pc = "idle"
  /\ pc' = "started"
  /\ UNCHANGED <<run, timer, error_report, batch_num, wave, status, deletes, creates,
                 sends, clocks>>

\* Lines 104-108: two status messages, guild.webhooks(), and the webhook
\* coroutines.  discord.Forbidden from guild.webhooks() skips the phase; any
\* other exception, or a failed status message, leaves the try block.
StartCleanup ==
  /\ pc = "started"
  /\ \E ans \in {"ok", "forbidden", "raise"} :
       IF ans = "raise"
       THEN \E n \in 0..2 : Fail(SubSeq(Progress(<<"initiated", "webhooks">>), 1, n))
       ELSE /\ pc' = "webhooks"
            /\ status' = status \o Progress(<<"initiated", "webhooks">>)
            /\ del' = IF ans = "ok" THEN Launch(del, guild, "webhook") ELSE del
            /\ UNCHANGED <<run, timer, error_report, batch_num, wave, semaphore,
                           creates, sends, clocks>>

\* The gather of one phase has returned; after the status message the
\* coroutines of the next phase are created.
NextPhase(at, to, next) ==
  /\ pc = at
  /\ AllDone(del)
  /\ \E raised \in BOOLEAN :
       IF raised THEN Fail(<<>>)
       ELSE /\ pc' = next
            /\ status' = Append(status, Message(next))
            /\ del' = Collect(Launch(del, guild, to))
            /\ UNCHANGED <<run, timer, error_report, batch_num, wave, semaphore,
                           creates, sends, clocks>>

FinishWebhooks == NextPhase("webhooks", "emoji", "emojis")

FinishEmojis == NextPhase("emojis", "role", "roles")

\* Lines 123-124: the status message, then asyncio.sleep(2).
FinishRoles ==
  /\ pc = "roles"
  /\ AllDone(del)
  /\ \E raised \in BOOLEAN :
       IF raised THEN Fail(<<>>)
       ELSE /\ pc' = "pause"
            /\ status' = Append(status, Message("channels"))
            /\ timer' = Cap(ChannelPause)
            /\ del' = Collect(del)
            /\ UNCHANGED <<run, error_report, batch_num, wave, semaphore,
                           creates, sends, clocks>>

\* delete_channels, line 61: the channels that are no category.
StartChannels ==
  /\ pc = "pause"
  /\ timer = 0
  /\ pc' = "channels"
  /\ del' = Launch(del, guild, "channel")
  /\ UNCHANGED <<run, timer, error_report, status, batch_num, wave, semaphore,
                 creates, sends, clocks>>

\* delete_channels, line 65: the categories, once the channels' gather is back.
FinishChannels ==
  /\ pc = "channels"
  /\ AllDone(del)
  /\ pc' = "categories"
  /\ del' = Collect(Launch(del, guild, "category"))
  /\ UNCHANGED <<run, timer, error_report, status, batch_num, wave, semaphore,
                 creates, sends, clocks>>

SuppliedAlways(link) == TRUE

SuppliedUnlessNone(link) == link # "None"

\* if invite_link: -- None and "" are both false.
Supplied(link) == link \notin {"None", ""}

\* --------------------------------------------- create_announcement_channels
\* The vocabulary of lines 234-245, each name a list of characters.
channel_names ==
  <<<<"g", "e", "n", "e", "r", "a", "l">>,
     <<"a", "n", "n", "o", "u", "n", "c", "e", "m", "e", "n", "t", "s">>,
     <<"u", "p", "d", "a", "t", "e", "s">>,
     <<"i", "m", "p", "o", "r", "t", "a", "n", "t">>,
     <<"n", "e", "w", "s">>,
     <<"s", "e", "r", "v", "e", "r", "-", "u", "p", "d", "a", "t", "e", "s">>,
     <<"c", "o", "m", "m", "u", "n", "i", "t", "y">>,
     <<"c", "h", "a", "t">>,
     <<"d", "i", "s", "c", "u", "s", "s", "i", "o", "n">>,
     <<"m", "a", "i", "n">>,
     <<"i", "n", "f", "o">>,
     <<"n", "o", "t", "i", "c", "e", "s">>,
     <<"a", "l", "e", "r", "t", "s">>,
     <<"w", "e", "l", "c", "o", "m", "e">>,
     <<"l", "o", "b", "b", "y">>,
     <<"h", "a", "n", "g", "o", "u", "t">>,
     <<"l", "o", "u", "n", "g", "e">>,
     <<"s", "o", "c", "i", "a", "l">>,
     <<"r", "a", "n", "d", "o", "m">>,
     <<"m", "i", "s", "c">>,
     <<"o", "f", "f", "-", "t", "o", "p", "i", "c">>,
     <<"c", "a", "s", "u", "a", "l">>,
     <<"t", "a", "l", "k">>,
     <<"v", "o", "i", "c", "e", "-", "c", "h", "a", "t">>,
     <<"g", "a", "m", "i", "n", "g">>,
     <<"m", "e", "m", "e", "s">>,
     <<"m", "e", "d", "i", "a">>,
     <<"s", "h", "a", "r", "i", "n", "g">>,
     <<"e", "v", "e", "n", "t", "s">>,
     <<"a", "c", "t", "i", "v", "i", "t", "i", "e", "s">>,
     <<"q", "u", "e", "s", "t", "i", "o", "n", "s">>,
     <<"h", "e", "l", "p">>,
     <<"s", "u", "p", "p", "o", "r", "t">>,
     <<"f", "e", "e", "d", "b", "a", "c", "k">>,
     <<"s", "u", "g", "g", "e", "s", "t", "i", "o", "n", "s">>,
     <<"r", "u", "l", "e", "s">>,
     <<"g", "u", "i", "d", "e", "l", "i", "n", "e", "s">>,
     <<"m", "o", "d", "e", "r", "a", "t", "i", "o", "n">>,
     <<"a", "d", "m", "i", "n">>,
     <<"s", "t", "a", "f", "f">>,
     <<"b", "o", "t", "s">>,
     <<"c", "o", "m", "m", "a", "n", "d", "s">>,
     <<"m", "u", "s", "i", "c">>,
     <<"v", "o", "i", "c", "e">>,
     <<"s", "t", "r", "e", "a", "m">>,
     <<"a", "r", "t">>,
     <<"c", "r", "e", "a", "t", "i", "v", "e">>,
     <<"s", "h", "o", "w", "c", "a", "s", "e">>,
     <<"p", "r", "o", "j", "e", "c", "t", "s">>,
     <<"c", "o", "l", "l", "a", "b", "o", "r", "a", "t", "i", "o", "n">>>>

\* str(n) of an f-string, n >= 0.
RECURSIVE Decimal(_)
Decimal(n) ==
  LET digit == <<"0", "1", "2", "3", "4", "5", "6", "7", "8", "9">>[(n % 10) + 1]
  IN IF n < 10 THEN <<digit>> ELSE Append(Decimal(n \div 10), digit)

channel_nameCountFromZero(i) ==
  LET base == channel_names[(i % Len(channel_names)) + 1]
  IN IF i >= Len(channel_names)
     THEN base \o <<"-">> \o Decimal(i \div Len(channel_names))
     ELSE base

\* Lines 250-252: the name prepared for index i, from 0.
channel_name(i) ==
  LET base == channel_names[(i % Len(channel_names)) + 1]
  IN IF i >= Len(channel_names)
     THEN base \o <<"-">> \o Decimal(i \div Len(channel_names) + 1)
     ELSE base

\* channels_to_create after n iterations of the loop.
Names(n) == [k \in 1..n |-> channel_name(k - 1)]

\* One iteration of the loop of lines 249-253.
AppendName ==
  /\ pc = "naming"
  /\ Len(channels_to_create) < RequestedNames
  /\ channels_to_create' = Append(channels_to_create, channel_name(Len(channels_to_create)))
  /\ UNCHANGED <<run, pipeline, deletes, cre, channel_semaphore, all_channels, sends, clocks>>

BatchOneMore(b) == { i \in 1..NumChannels : b < i /\ i <= b + BatchSize + 1 }

\* channels_to_create[batch_num:batch_num + batch_size], as indices from 1.
Batch(b) == { i \in 1..NumChannels : b < i /\ i <= b + BatchSize }

LaunchBatch(c, b) == [i \in DOMAIN c |-> IF i \in Batch(b) THEN NewTask ELSE c[i]]

\* [ch for ch in batch_results if ch and isinstance(ch, discord.TextChannel)]
valid_batch(c) == { i \in DOMAIN c : c[i].pc = "done" /\ c[i].result = "channel" }

\* wave_tasks: one send coroutine per channel of all_channels.
LaunchWave(channels) == [i \in 1..NumChannels |-> IF i \in channels THEN NewTask ELSE NoTask]

\* if batch_num + batch_size < 100
MoreBatches(b) == b + BatchSize < NumChannels

MoreWavesOneShort(w) == w < NumWaves - 2

\* if wave < 19
MoreWaves(w) == w < NumWaves - 1

AbortNever(channels) == FALSE

\* if not all_channels: return
Abort(channels) == channels = {}

\* The channel gather of delete_channels has returned.  Without an invite
\* link cleanup_server is over; with one, the first batch is created.
FinishCategories ==
  /\ pc = "categories"
  /\ AllDone(del)
  /\ del' = Collect(del)
  /\ IF Supplied(invite_link)
     THEN /\ pc' = "creating"
          /\ channels_to_create' = Names(NumChannels)
          /\ cre' = LaunchBatch(cre, 0)
     ELSE /\ pc' = "terminated"
          /\ UNCHANGED <<cre, channels_to_create>>
  /\ UNCHANGED <<run, timer, error_report, status, batch_num, wave, semaphore,
                 channel_semaphore, all_channels, sends, clocks>>

\* The first wave: its coroutines are created.
StartFlood(channels) ==
  /\ pc' = "flooding"
  /\ snd' = LaunchWave(channels)
  /\ send_tasks' = send_tasks + Cardinality(channels)
  /\ UNCHANGED <<timer, wave, message_semaphore>>

\* Lines 270-282: the gather of a batch has returned.
FinishBatch ==
  /\ pc = "creating"
  /\ AllDone(cre)
  /\ all_channels' = all_channels \cup valid_batch(cre)
  /\ cre' = Collect(cre)
  /\ IF MoreBatches(batch_num)
     THEN /\ pc' = "batch_delay"
          /\ timer' = Cap(BatchDelay)
          /\ UNCHANGED <<wave, sends>>
     ELSE IF Abort(all_channels')
          THEN /\ pc' = "terminated"
               /\ UNCHANGED <<timer, wave, sends>>
          ELSE StartFlood(all_channels')
  /\ UNCHANGED <<run, error_report, status, batch_num, deletes, channel_semaphore,
                 channels_to_create, clocks>>

\* The delay between batches is over: the next batch.
NextBatch ==
  /\ pc = "batch_delay"
  /\ timer = 0
  /\ pc' = "creating"
  /\ batch_num' = batch_num + BatchSize
  /\ cre' = LaunchBatch(cre, batch_num')
  /\ UNCHANGED <<run, timer, error_report, status, wave, deletes, channel_semaphore,
                 all_channels, channels_to_create, sends, clocks>>

\* Lines 300-306: the gather of a wave has returned.
FinishWave ==
  /\ pc = "flooding"
  /\ AllDone(snd)
  /\ snd' = Collect(snd)
  /\ IF MoreWaves(wave)
     THEN pc' = "wave_delay" /\ timer' = Cap(WaveDelay)
     ELSE pc' = "terminated" /\ UNCHANGED timer
  /\ UNCHANGED <<run, error_report, status, batch_num, wave, deletes, creates,
                 message_semaphore, send_tasks, clocks>>

\* The delay between waves is over: the next wave.
NextWave ==
  /\ pc = "wave_delay"
  /\ timer = 0
  /\ pc' = "flooding"
  /\ wave' = wave + 1
  /\ snd' = LaunchWave(all_channels)
  /\ send_tasks' = send_tasks + Cardinality(all_channels)
  /\ UNCHANGED <<run, timer, error_report, status, batch_num, deletes, creates,
                 message_semaphore, clocks>>

\* ------------------------------------------------------------------ time
Advance(clock, limit) == IF clock < limit THEN clock + 1 ELSE clock

\* What the event loop runs before any time passes: a coroutine that was
\* just created or whose gather has just returned, a coroutine that finds a
\* free permit, and the end of a sleep that has no random part (the sleeps of
\* delete_with_retry and the asyncio.sleep(2) of cleanup_server).  The end of a
\* remote call and of a sleep with jitter come at any later time.
Urgent ==
  \/ pc = "started"
  \/ pc \in {"webhooks", "emojis", "roles", "channels", "categories"} /\ AllDone(del)
  \/ pc = "creating" /\ AllDone(cre)
  \/ pc = "flooding" /\ AllDone(snd)
  \/ pc = "pause" /\ timer = 0
  \/ \E r \in DOMAIN del :
       \/ del[r].pc = "ready" /\ CanAcquire(semaphore)
       \/ del[r].pc \in {"sleep_hint", "sleep"} /\ del[r].timer = 0
  \/ \E i \in DOMAIN cre : cre[i].pc = "ready" /\ CanAcquire(channel_semaphore)
  \/ \E i \in DOMAIN snd : snd[i].pc = "ready" /\ CanAcquire(message_semaphore)

\* One tick passes: countdowns go down, clocks go up to where they saturate.
Tick ==
  /\ ~Urgent
  /\ timer' = IF timer > 0 THEN timer - 1 ELSE 0
  /\ del' = [r \in DOMAIN del |-> TickTask(del[r])]
  /\ cre' = [i \in DOMAIN cre |-> TickTask(cre[i])]
  /\ snd' = [i \in DOMAIN snd |-> TickTask(snd[i])]
  /\ since_last_request' = Advance(since_last_request, Horizon)
  /\ since_dispatch' = [c \in DOMAIN since_dispatch |->
                          Advance(since_dispatch[c], min_interval(c))]
  /\ UNCHANGED <<run, pc, error_report, status, batch_num, wave, semaphore, channel_semaphore,
                 all_channels, channels_to_create, message_semaphore, send_tasks>>

Next ==
  \/ Start
  \/ StartCleanup
  \/ FinishWebhooks
  \/ FinishEmojis
  \/ FinishRoles
  \/ StartChannels
  \/ FinishChannels
  \/ FinishCategories
  \/ FinishBatch
  \/ NextBatch
  \/ FinishWave
  \/ NextWave
  \/ \E r \in DOMAIN del : DeleteIssue(r)
  \/ \E r \in DOMAIN del : DeleteReturn(r)
  \/ \E r \in DOMAIN del : DeleteWake(r)
  \/ \E i \in DOMAIN cre : CreateEnter(i)
  \/ \E i \in DOMAIN cre : CreatePaced(i)
  \/ \E i \in DOMAIN cre : CreateReturn(i)
  \/ \E i \in DOMAIN cre : CreateWake(i)
  \/ \E i \in DOMAIN snd : SendEnter(i)
  \/ \E i \in DOMAIN snd : SendPaced(i)
  \/ \E i \in DOMAIN snd : SendReturn(i)
  \/ \E i \in DOMAIN snd : SendWake(i)
  \/ Tick

Spec == Init /\ [][Next]_vars

\* The event loop keeps running: as long as some coroutine can take a step or
\* time can pass, a step is taken.  Every remote call and every sleep then
\* comes to its end, and a coroutine waiting for a permit gets one once the
\* holders have left.
SpecFair == Spec /\ WF_vars(Next)

\* The run up to the point where delete_roles has built its coroutines.
NextRoles ==
  \/ Start
  \/ StartCleanup
  \/ FinishWebhooks
  \/ FinishEmojis

SpecRoles == InitRoles /\ [][NextRoles]_vars

\* create_announcement_channels has just been entered: the teardown is over
\* and the loop that prepares the names is about to run.
InitNames ==
  /\ guild \in Guilds
  /\ invite_link \in { link \in InviteLinks : Supplied(link) }
  /\ pc = "naming"
  /\ timer = 0
  /\ error_report = "none"
  /\ status = Progress(<<"initiated", "webhooks", "emojis", "roles", "channels">>)
  /\ del = [r \in Resources(guild) |->
              IF \E k \in 1..Len(Kinds) : r \in Targets(guild, Kinds[k])
              THEN Gathered ELSE NoTask]
  /\ semaphore = DeletePermits
  /\ cre = [i \in 1..NumChannels |-> NoTask]
  /\ channel_semaphore = ChannelPermits
  /\ batch_num = 0
  /\ all_channels = {}
  /\ channels_to_create = <<>>
  /\ snd = [i \in 1..NumChannels |-> NoTask]
  /\ message_semaphore = MessagePermits
  /\ wave = 0
  /\ send_tasks = 0
  /\ since_last_request \in 0..Horizon
  /\ since_dispatch = [c \in {"channel", "message"} |-> min_interval(c)]

\* The loop that prepares the names, one iteration a step.
NextNames == AppendName

SpecNames == InitNames /\ [][NextNames]_vars

\* A guild with three channels, one emoji, no webhook and no category, whose
\* roles are @everyone, one role below the caller's top role and that top role.
ScenarioGuild ==
  [webhooks |-> 0, emojis |-> 1, channels |-> 3, categories |-> 0,
   roles |-> <<Role(TRUE, FALSE, 0), Role(FALSE, FALSE, 1), Role(FALSE, FALSE, 2)>>,
   me_top |-> 2]

\* A run on ScenarioGuild with no invite link: None, or the empty string.
InitScenario ==
  /\ guild = ScenarioGuild
  /\ invite_link \in {"None", ""}
  /\ Constructed

\* item.delete() returns normally, or finds the item gone already: the
\* coroutine returns True.
DeleteSucceeds(r) == DeleteReturn(r) /\ del'[r].last \in {"ok", "not_found"}

\* cleanup_server with every delete_with_retry returning True at its first call.
NextScenario ==
  \/ Start
  \/ StartCleanup
  \/ FinishWebhooks
  \/ FinishEmojis
  \/ FinishRoles
  \/ StartChannels
  \/ FinishChannels
  \/ FinishCategories
  \/ \E r \in DOMAIN del : DeleteIssue(r)
  \/ \E r \in DOMAIN del : DeleteSucceeds(r)
  \/ Tick

SpecScenario == InitScenario /\ [][NextScenario]_vars

\* ---------------------------------------------------------------- claims
Failure == {"False", "None"}

\* The coroutines holding a permit of each pool.
DeleteHolders == { r \in DOMAIN del : del[r].pc = "call" }
CreateHolders == { i \in DOMAIN cre : cre[i].pc \in {"pace", "call", "sleep"} }
SendHolders == { i \in DOMAIN snd : snd[i].pc \in {"pace", "call", "sleep"} }

\* C1: at no time do more coroutines hold a permit of a pool than the pool
\* has permits (the pools are scaled: DeletePermits, ChannelPermits,
\* MessagePermits), and the free permits and the holders add up to the pool.
C1_PermitCeiling ==
  /\ Cardinality(DeleteHolders) <= DeletePermits
  /\ Cardinality(CreateHolders) <= ChannelPermits
  /\ Cardinality(SendHolders) <= MessagePermits
  /\ semaphore = DeletePermits - Cardinality(DeleteHolders)
  /\ channel_semaphore = ChannelPermits - Cardinality(CreateHolders)
  /\ message_semaphore = MessagePermits - Cardinality(SendHolders)

\* The delete pool is exhausted and another delete is waiting for a permit.
C1_Witness ==
  /\ Cardinality(DeleteHolders) = DeletePermits
  /\ \E r \in DOMAIN del : del[r].pc = "ready"

\* C2: once a delete coroutine of a kind exists, every resource of every
\* earlier kind (webhooks, emojis, roles, channels, categories, in that order)
\* that is deleted at all has its delete resolved; webhooks alone may have
\* been skipped.
C2_GroupOrder ==
  \A j \in 2..Len(Kinds) :
    (\E r \in DOMAIN del : r[1] = Kinds[j] /\ del[r].pc # "none")
    => \A k \in 1..(j - 1) :
         \A q \in Targets(guild, Kinds[k]) :
           \/ Resolved(del[q])
           \/ Kinds[k] = "webhook" /\ del[q].pc = "none"

\* A category delete is in its remote call, after the webhooks were deleted.
C2_Witness ==
  /\ \E r \in DOMAIN del : r[1] = "category" /\ del[r].pc = "call"
  /\ \E q \in DOMAIN del : q[1] = "webhook" /\ del[q].pc = "gathered"

\* A remote call of a coroutine of the set is issued in this step.
Issued(old, new) == \E x \in DOMAIN old : new[x].attempts > old[x].attempts

\* C3: no create call is issued less than ChannelMinInterval after the
\* previous create call, and no send call less than MessageMinInterval after
\* the previous send call.
C3_MinSpacing ==
  [][/\ Issued(cre, cre') => since_dispatch["channel"] >= ChannelMinInterval
     /\ Issued(snd, snd') => since_dispatch["message"] >= MessageMinInterval]_vars

Permanent == {"client_error", "exception"}

\* C4 as claimed: in every class, a task whose latest attempt ended with a
\* permanent client error or an unknown exception has returned a failure.
C4_AbandonAll ==
  /\ \A r \in DOMAIN del :
       del[r].last \in Permanent => del[r].pc = "done" /\ del[r].result \in Failure
  /\ \A i \in DOMAIN cre :
       cre[i].last \in Permanent \cup {"not_found"}
       => cre[i].pc = "done" /\ cre[i].result \in Failure
  /\ \A i \in DOMAIN snd :
       snd[i].last \in Permanent \cup {"not_found"}
       => snd[i].pc = "done" /\ snd[i].result \in Failure

\* C4 as amended: a create or send task whose attempt ended with a permanent
\* client error or an unknown exception has returned a failure at once; a
\* delete task returns False on such an attempt only if it was its third,
\* and otherwise sleeps and tries again.
C4_AbandonCreateSend ==
  /\ [](/\ \A i \in DOMAIN cre :
             cre[i].last \in Permanent \cup {"not_found"}
             => cre[i].pc = "done" /\ cre[i].result \in Failure
        /\ \A i \in DOMAIN snd :
             snd[i].last \in Permanent \cup {"not_found"}
             => snd[i].pc = "done" /\ snd[i].result \in Failure)
  /\ [][\A r \in DOMAIN del :
          (del[r].pc = "call" /\ del'[r].pc # "call" /\ del'[r].last \in Permanent)
          => IF del[r].attempts = DeleteMaxRetries
             THEN del'[r].pc = "done" /\ del'[r].result = "False"
             ELSE del'[r].pc = "sleep"]_vars

\* A create was abandoned on a permanent error.
C4_Witness ==
  \E i \in DOMAIN cre :
    cre[i].pc = "done" /\ cre[i].last \in Permanent /\ cre[i].result = "None"

\* C5: a task never issues more remote calls than its kind's max_retries.
C5_AttemptBudget ==
  /\ \A r \in DOMAIN del : del[r].attempts <= DeleteMaxRetries
  /\ \A i \in DOMAIN cre : cre[i].attempts <= CreateMaxRetries
  /\ \A i \in DOMAIN snd : snd[i].attempts <= SendMaxRetries

\* A create has used its whole budget and its last call was rate limited too.
C5_Witness ==
  \E i \in DOMAIN cre :
    /\ cre[i].attempts = CreateMaxRetries
    /\ cre[i].pc = "sleep"
    /\ cre[i].last = "rate_limited"

Retryable == {"rate_limited", "server_error"}

\* The coroutine returns in this step, its latest call having ended
\* rate limited or with a server error.
GivesUp(old, new) == old.pc \notin {"done", "gathered"} /\ new.pc = "done" /\ new.last \in Retryable

\* C7: a task whose latest call ended rate limited or with a server error
\* returns only once max_retries calls were issued, and returns a failure.
C7_ExhaustedFails ==
  /\ [](/\ \A r \in DOMAIN del :
             del[r].pc = "done" /\ del[r].last \in Retryable => del[r].result = "False"
        /\ \A i \in DOMAIN cre :
             cre[i].pc = "done" /\ cre[i].last \in Retryable => cre[i].result = "None"
        /\ \A i \in DOMAIN snd :
             snd[i].pc = "done" /\ snd[i].last \in Retryable => snd[i].result = "False")
  /\ [][/\ \A r \in DOMAIN del :
             GivesUp(del[r], del'[r]) => del[r].attempts = DeleteMaxRetries
        /\ \A i \in DOMAIN cre :
             GivesUp(cre[i], cre'[i]) => cre[i].attempts = CreateMaxRetries
        /\ \A i \in DOMAIN snd :
             GivesUp(snd[i], snd'[i]) => snd[i].attempts = SendMaxRetries]_vars

\* A send has given up with its last call rate limited.
C7_Witness ==
  \E i \in DOMAIN snd :
    snd[i].pc = "done" /\ snd[i].last = "rate_limited" /\ snd[i].result = "False"

\* The pipeline state of the specification.
Stage(p) ==
  CASE p = "idle" -> "Idle"
    [] p \in {"started", "webhooks", "emojis", "roles", "pause", "channels", "categories"}
         -> "TeardownRunning"
    [] p \in {"creating", "batch_delay", "flooding", "wave_delay"} -> "ProvisionRunning"
    [] p = "terminated" -> "Terminated"

StageStep ==
  { <<"Idle", "TeardownRunning">>, <<"TeardownRunning", "ProvisionRunning">>,
    <<"TeardownRunning", "Terminated">>, <<"ProvisionRunning", "Terminated">> }

\* Every delete of the teardown has resolved: the emojis, the selected roles,
\* the channels and the categories all, the webhooks all or (skipped) none.
TeardownResolved ==
  /\ \A r \in DOMAIN del : del[r].pc \in {"none", "gathered"}
  /\ \A k \in {"emoji", "role", "channel", "category"} :
       \A r \in Targets(guild, k) : del[r].pc = "gathered"

NoProvisioning ==
  /\ \A i \in DOMAIN cre : cre[i].pc = "none"
  /\ \A i \in DOMAIN snd : snd[i].pc = "none"
  /\ send_tasks = 0

\* C8: the pipeline moves Idle -> TeardownRunning -> (ProvisionRunning or
\* Terminated) -> Terminated; it is in ProvisionRunning only with an invite
\* link and with the whole teardown resolved; without an invite link no create
\* and no send coroutine ever exists.
C8_StateMachine ==
  /\ [](Stage(pc) = "ProvisionRunning"
        => invite_link \notin {"None", ""} /\ TeardownResolved)
  /\ [](invite_link \in {"None", ""} => NoProvisioning)
  /\ [][Stage(pc') = Stage(pc) \/ <<Stage(pc), Stage(pc')>> \in StageStep]_vars

\* Provisioning is running: a create call is in flight.
C8_Witness ==
  /\ pc = "creating"
  /\ \E i \in DOMAIN cre : cre[i].pc = "call"

\* C9: every wave creates one send coroutine for each created channel and for
\* nothing else, so with k channels created the flood creates k * NumWaves
\* send coroutines in all.
C9_SendCount ==
  /\ pc \in {"flooding", "wave_delay"}
     => /\ send_tasks = Cardinality(all_channels) * (wave + 1)
        /\ \A i \in DOMAIN snd : (snd[i].pc # "none") <=> (i \in all_channels)
  /\ pc = "terminated" /\ all_channels # {}
     => send_tasks = Cardinality(all_channels) * NumWaves

\* The flood is over with some but not all channels created.
C9_Witness ==
  /\ pc = "terminated"
  /\ Cardinality(all_channels) = NumChannels - 1
  /\ send_tasks = (NumChannels - 1) * NumWaves

\* C10: with no channel created the flood is never entered and no send
\* coroutine is created.
C10_AbortNoSend ==
  /\ pc \in {"flooding", "wave_delay"} => all_channels # {}
  /\ all_channels = {} => send_tasks = 0 /\ \A i \in DOMAIN snd : snd[i].pc = "none"

\* An invite link was given, every create has failed, and the run is over.
C10_Witness ==
  /\ pc = "terminated"
  /\ invite_link \notin {"None", ""}
  /\ \A i \in DOMAIN cre : cre[i].pc = "gathered"
  /\ all_channels = {}
  /\ send_tasks = 0

\* The kind of resource a teardown phase deletes.
PhaseKind(p) ==
  CASE p = "webhooks" -> "webhook"
    [] p = "emojis" -> "emoji"
    [] p = "roles" -> "role"
    [] p = "channels" -> "channel"
    [] p = "categories" -> "category"

\* C11: a failed delete blocks nothing.  A delete returns only after a call
\* was issued for it; whatever the results of a phase, the step into the next
\* phase creates a delete for every resource the phase selects; and a run that
\* ends with no pipeline error has resolved a delete for every emoji, selected
\* role, channel and category.
C11_FailureContained ==
  /\ [](\A r \in DOMAIN del : del[r].pc = "done" => del[r].last # "none")
  /\ [](pc = "terminated" /\ error_report = "none" => TeardownResolved)
  /\ [][pc' # pc /\ pc' \in {"emojis", "roles", "channels", "categories"}
        => \A r \in Targets(guild, PhaseKind(pc')) : del'[r].pc = "ready"]_vars

\* A channel delete has failed for good after three calls while the delete of
\* another channel of the same phase is in its call.
C11_Witness ==
  /\ pc = "channels"
  /\ \E r \in DOMAIN del :
       /\ r[1] = "channel" /\ del[r].pc = "done"
       /\ del[r].result = "False" /\ del[r].last = "server_error"
  /\ \E q \in DOMAIN del : q[1] = "channel" /\ del[q].pc = "call"

\* guild.webhooks() gave no list: no webhook delete was ever created.
WebhooksUnlisted == \A r \in OfKind(guild, "webhook") : del[r].pc = "none"

\* C12 as claimed: once the webhook listing or a status message has failed,
\* the run is over and the error was reported to the status channel.
C12_AbortAlways ==
  /\ pc \notin {"idle", "started"} /\ WebhooksUnlisted
     => pc = "terminated" /\ error_report = "sent"
  /\ error_report # "none" => pc = "terminated" /\ error_report = "sent"

\* C12 as amended: an exception that reaches the except clause of
\* cleanup_server ends the run in that step, with one attempt to report it
\* (the report itself may fail and is then dropped), and nothing is created or
\* issued afterwards; discord.Forbidden from the webhook listing is no such
\* exception: it is not reported and the run goes on.
C12_AbortOnRaise ==
  /\ [](error_report # "none" => pc = "terminated")
  /\ [](pc = "webhooks" /\ WebhooksUnlisted => error_report = "none")
  /\ [][error_report' # error_report
        => /\ error_report = "none" /\ pc # "terminated" /\ pc' = "terminated"
           /\ UNCHANGED <<del, cre, snd, send_tasks>>]_vars
  /\ [][error_report # "none"
        => UNCHANGED <<pc, error_report, del, cre, snd, send_tasks>>]_vars

\* The status message of the role phase has failed: the error was reported,
\* the emojis are deleted and no role delete was created.
C12_Witness ==
  /\ pc = "terminated"
  /\ error_report = "sent"
  /\ \A r \in OfKind(guild, "emoji") : del[r].pc = "done"
  /\ \A r \in OfKind(guild, "role") : del[r].pc = "none"

\* The roles the claim selects: not @everyone, not managed, strictly below the
\* caller's top role.
Eligible ==
  { i \in 1..Len(guild.roles) :
      /\ ~guild.roles[i].everyone
      /\ ~guild.roles[i].managed
      /\ guild.roles[i].position < guild.me_top }

C14_HintWaited ==
  /\ [][\A r \in DOMAIN del : del'[r].attempts > del[r].attempts => del[r].owed = 0]_vars
  /\ [][\A r \in DOMAIN del :
          del[r].pc = "call" /\ del'[r].pc # "call" /\ del'[r].last = "rate_limited"
          => /\ del'[r].pc = "sleep_hint"
             /\ del'[r].timer = del'[r].owed
             /\ del'[r].attempts = del[r].attempts]_vars
  /\ [][\A r \in DOMAIN del :
          del[r].pc = "sleep_hint" /\ del'[r].pc # "sleep_hint"
          => del[r].timer = 0 /\ del'[r].pc = "sleep"]_vars
  /\ [](\A r \in DOMAIN del :
          del[r].pc \in {"call", "sleep_hint", "sleep"} => del[r].attempts = del[r].attempt + 1)
  /\ [][\A r \in DOMAIN del :
          del'[r].pc = "ready" /\ del[r].pc # "ready" /\ del[r].pc # "none"
          => del[r].pc = "sleep" /\ del'[r].attempt = del[r].attempt + 1]_vars

\* A delete is in its second call, the first having been answered 429.
C14_Witness ==
  \E r \in DOMAIN del :
    del[r].pc = "call" /\ del[r].attempts = 2 /\ del[r].last = "rate_limited"

\* C15: the name at index i (from 0) of the list is vocabulary name i for
\* i < 50 and vocabulary name i mod 50 followed by "-2" for 50 <= i < 100, and
\* no two names of the list are the same string.
C15_Names ==
  /\ Len(channel_names) = 50
  /\ Len(channels_to_create) <= 100
  /\ \A k \in 1..Len(channels_to_create) :
       channels_to_create[k] =
         IF k - 1 < 50 THEN channel_names[k]
         ELSE channel_names[((k - 1) % 50) + 1] \o <<"-", "2">>
  /\ \A j, k \in 1..Len(channels_to_create) :
       j # k => channels_to_create[j] # channels_to_create[k]

\* All 100 names are prepared.
C15_Witness ==
  /\ pc = "naming"
  /\ Len(channels_to_create) = 100
  /\ channels_to_create[100] = <<"c", "o", "l", "l", "a", "b", "o", "r", "a", "t", "i", "o", "n", "-", "2">>

\* The report of the claim: per phase, the deletes succeeded, failed, skipped.
Report ==
  [Webhooks |-> <<0, 0, 0>>, Emoji |-> <<1, 0, 0>>, Roles |-> <<1, 0, 1>>,
   Channels |-> <<3, 0, 0>>]

\* The deletes of a kind whose gather has returned.
Deleted(kind) == { r \in OfKind(guild, kind) : del[r].pc = "gathered" }

C17_Barriers ==
  /\ [](\A i \in DOMAIN cre :
          /\ i <= batch_num => cre[i].pc \in {"none", "gathered"}
          /\ i <= batch_num /\ Stage(pc) = "ProvisionRunning" => cre[i].pc = "gathered"
          /\ i > batch_num + BatchSize => cre[i].pc = "none")
  /\ [](batch_num % BatchSize = 0 /\ batch_num < NumChannels)
  /\ [][batch_num' # batch_num
        => /\ batch_num' = batch_num + BatchSize
           /\ \A i \in DOMAIN cre : cre[i].pc \in {"none", "gathered"}]_vars
  /\ []((\E i \in DOMAIN snd : snd[i].pc # "none")
        => /\ \A j \in DOMAIN cre : cre[j].pc = "gathered"
           /\ batch_num + BatchSize >= NumChannels)
  /\ [][send_tasks' # send_tasks
        => \A i \in DOMAIN snd : snd[i].pc \in {"none", "gathered"}]_vars
  /\ [][wave' # wave
        => /\ wave' = wave + 1
           /\ send_tasks' # send_tasks
           /\ \A i \in DOMAIN snd : snd[i].pc \in {"none", "gathered"}]_vars

\* The second wave is running: a send of it is in its call.
C17_Witness ==
  /\ wave = 1
  /\ batch_num > 0
  /\ \E i \in DOMAIN snd : snd[i].pc = "call"

\* C18: every remote call of a create or send coroutine, a retry included, is
\* issued straight after that coroutine has taken its permit and gone through
\* smart_delay (which then sets last_request_time to the time of the call).
C18_PerAttempt ==
  [][/\ \A i \in DOMAIN cre :
          cre'[i].attempts > cre[i].attempts
          => cre[i].pc \in {"ready", "pace"} /\ since_last_request' = 0
     /\ \A i \in DOMAIN snd :
          snd'[i].attempts > snd[i].attempts
          => snd[i].pc \in {"ready", "pace"} /\ since_last_request' = 0]_vars

PoolsFull ==
  /\ semaphore = DeletePermits
  /\ channel_semaphore = ChannelPermits
  /\ message_semaphore = MessagePermits

\* The coroutine leaves its async with block in this step.
Leaves(old, new, inside) == old.pc \in inside /\ new.pc \notin inside

\* C19: a coroutine that leaves its async with block, whatever the outcome,
\* gives its permit back in that step; whenever cleanup_server or
\* create_announcement_channels moves on (a phase, a batch, a wave, the end of
\* the run) all three pools are full (the pools are scaled: DeletePermits,
\* ChannelPermits, MessagePermits).
C19_NoLeak ==
  /\ [][/\ \A r \in DOMAIN del :
             Leaves(del[r], del'[r], {"call"}) => semaphore' = semaphore + 1
        /\ \A i \in DOMAIN cre :
             Leaves(cre[i], cre'[i], {"pace", "call", "sleep"})
             => channel_semaphore' = channel_semaphore + 1
        /\ \A i \in DOMAIN snd :
             Leaves(snd[i], snd'[i], {"pace", "call", "sleep"})
             => message_semaphore' = message_semaphore + 1]_vars
  /\ [][pc' # pc => PoolsFull /\ PoolsFull']_vars
  /\ [](pc = "terminated" => PoolsFull)

\* The gather of a batch is back with the channel pool full again, one create
\* having ended on an exception and one with its retries used up.
C19_Witness ==
  /\ pc = "creating"
  /\ channel_semaphore = ChannelPermits
  /\ \E i \in DOMAIN cre : cre[i].pc = "done" /\ cre[i].last = "exception"
  /\ \E i \in DOMAIN cre : cre[i].pc = "done" /\ cre[i].last = "rate_limited"

\* C20: whatever the remote calls answer, the run comes to its end, and at
\* the end every delete, create and send coroutine that was created has
\* returned: none is left in a call, in a sleep or waiting for a permit.
C20_Terminates ==
  /\ <>(pc = "terminated")
  /\ [](pc = "terminated" => AllDone(del) /\ AllDone(cre) /\ AllDone(snd))

\* The run has ended after the last wave with every send returned.
C20_Witness ==
  /\ pc = "terminated"
  /\ wave = NumWaves - 1
  /\ \E i \in DOMAIN snd : snd[i].pc = "gathered"

====
